---- MODULE Spec2Model ----
(***************************************************************************)
(* Model of src/src/rctree_links.rs: LinkTree, RefKinematicChain and       *)
(* create_kinematic_chains_with_dof_limit.                                 *)
(*                                                                         *)
(* Nodes are the Rc<RefCell<Node<Link>>> cells.  A node is identified by   *)
(* a number 1..k; 0 is the absent parent (None).  Cloning an Rc copies the *)
(* number, so every view (tree, chain) that holds a number reads and       *)
(* writes the same cell of the per-node functions below.                   *)
(***************************************************************************)
EXTENDS Integers, Sequences, FiniteSets

\* ------------------------------------------------------------------ bounds
\* Largest number of nodes of a tree in the joint-angle and transform
\* specifications.
MaxNodes == 3
\* Largest number of nodes of a tree a chain is constructed on.
MaxPathNodes == 4
\* Number of nodes of the trees handed to the chain extraction.
MaxExtNodes == 8
\* Largest number of fixed joints in a tree handed to the chain extraction.
MaxFixed == 1

\* usize::max_value(), the limit create_kinematic_chains passes.  Only
\* `dof > dof_limit` reads it, so any value above every dof behaves alike.
usize_max == 2147483647

\* Angles offered to the joints; the per-joint primitive accepts ValidAngles.
ValidAngles == {0, 1}
AngleVals == ValidAngles \cup {2}

VARIABLES
    parent,         \* Node.parent of every node (0: None)
    name,           \* Link.name
    has_joint,      \* Link.has_joint_angle(): the joint is not fixed
    angle,          \* the joint's angle
    transform,      \* Link.transform, the link's static offset
    cache,          \* Link.world_transform_cache (<<>>: None, <<t>>: Some(t))
    tree,           \* the LinkTree
    chain,          \* the RefKinematicChain made last (NoChain: none yet)
    last,           \* the last call and what it returned
    dof_limit,      \* create_kinematic_chains_with_dof_limit: its argument
    pc,             \*   position of the call
    leaves,         \*   leaves the outer iterator has not yielded yet
    leaf,           \*   ljn_ref of the closure
    root,           \*   root
    remove_dof,     \*   remove_dof
    name_hash,      \*   name_hash
    visited,        \*   one record per leaf the closure has finished
    out             \*   the chains collected so far

structure == <<parent, name, has_joint, transform>>
extract == <<dof_limit, pc, leaves, leaf, root, remove_dof, name_hash, visited, out>>
vars == <<parent, name, has_joint, angle, transform, cache, tree, chain, last,
          dof_limit, pc, leaves, leaf, root, remove_dof, name_hash, visited, out>>

Nodes == DOMAIN parent

\* --------------------------------------------------------- sequence helpers
RECURSIVE SortedSeq(_)
SortedSeq(S) ==
    IF S = {} THEN <<>>
    ELSE LET m == CHOOSE x \in S : \A y \in S : x <= y
         IN  <<m>> \o SortedSeq(S \ {m})

Reverse(s) == [i \in 1..Len(s) |-> s[Len(s) + 1 - i]]

RECURSIVE Filter(_, _)
Filter(s, keep) ==
    IF s = <<>> THEN <<>>
    ELSE (IF keep[Head(s)] THEN <<Head(s)>> ELSE <<>>) \o Filter(Tail(s), keep)

\* Index of x in s (0 when absent).
IndexOf(s, x) ==
    IF \E i \in 1..Len(s) : s[i] = x
    THEN CHOOSE i \in 1..Len(s) : s[i] = x
    ELSE 0

Range(s) == {s[i] : i \in 1..Len(s)}

\* ------------------------------------------------------------------ rctree
\* Node.children, in the order set_parent_child pushed them.
Children(n) == SortedSeq({c \in Nodes : parent[c] = n})

\* map_ancestors(end, clone): end first, then its parent, up to the node
\* that has no parent.
RECURSIVE map_ancestors(_)
map_ancestors(n) ==
    <<n>> \o (IF parent[n] = 0 THEN <<>> ELSE map_ancestors(parent[n]))

\* map_descendants(root, clone): pre-order, a node before its children.
RECURSIVE map_descendants(_)
RECURSIVE map_descendants_each(_)
map_descendants_each(cs) ==
    IF cs = <<>> THEN <<>>
    ELSE map_descendants(Head(cs)) \o map_descendants_each(Tail(cs))
map_descendants(n) == <<n>> \o map_descendants_each(Children(n))

\* ------------------------------------------------------------------- links
\* Link::get_joint_angle of one node: Some(angle) unless the joint is fixed.
get_joint_angle(n, a) == IF has_joint[n] THEN <<a[n]>> ELSE <<>>

\* Link::set_joint_angle: rejects a fixed joint and an angle out of limits,
\* and stores the angle otherwise.
set_joint_angle_ok(n, x) == has_joint[n] /\ x \in ValidAngles

\* Isometry3 is a group that does not commute; its stand-in here is the
\* smallest such group, the permutations of 1..3 under composition.
Identity == <<1, 2, 3>>
Mul(p, q) == [i \in 1..3 |-> p[q[i]]]
Offsets == {Identity, <<2, 1, 3>>}

\* The joint's own transform: a turn by its angle about its axis.
RECURSIVE Turn(_)
Turn(x) == IF x = 0 THEN Identity ELSE Mul(<<2, 3, 1>>, Turn(x - 1))

\* Link::calc_transform: the link's offset times the joint's transform.
calc_transform(n) ==
    Mul(transform[n], IF has_joint[n] THEN Turn(angle[n]) ELSE Identity)

\* ---------------------------------------------------------------- LinkTree
NoChain == [name |-> "", joint_with_links |-> <<>>]
NoCall == [op |-> "new", v |-> <<>>, ret |-> "", val |-> <<>>]

\* LinkTree::new
LinkTree_new(root_link) ==
    [root_link |-> root_link,
     expanded_robot_link_vec |-> map_descendants(root_link)]

\* LinkTree::iter_for_joints
iter_for_joints == Filter(tree.expanded_robot_link_vec, has_joint)

\* LinkTree::dof
dof == Len(iter_for_joints)

RECURSIVE filter_map_angles(_, _)
filter_map_angles(ns, a) ==
    IF ns = <<>> THEN <<>>
    ELSE get_joint_angle(Head(ns), a) \o filter_map_angles(Tail(ns), a)

\* Mutant: map_link in place of filter_map_link, a fixed joint is not skipped.
LinkTree_get_joint_angles_all(a) ==
    [i \in 1..Len(tree.expanded_robot_link_vec) |-> a[tree.expanded_robot_link_vec[i]]]

\* LinkTree::get_joint_angles (filter_map_link over the flattened order)
LinkTree_get_joint_angles(a) == filter_map_angles(tree.expanded_robot_link_vec, a)

\* Mutant: a rejected value is skipped and the loop goes on; the error is
\* reported at the end.
RECURSIVE assign_no_abort(_, _, _, _)
assign_no_abort(js, v, i, a) ==
    IF i > Len(js) \/ i > Len(v)
    THEN [angle |-> a,
          ret |-> IF \E j \in 1..Len(v) : j <= Len(js) /\ ~set_joint_angle_ok(js[j], v[j])
                  THEN "OutOfLimit" ELSE "Ok"]
    ELSE IF ~set_joint_angle_ok(js[i], v[i]) THEN assign_no_abort(js, v, i + 1, a)
    ELSE assign_no_abort(js, v, i + 1, [a EXCEPT ![js[i]] = v[i]])

\* The assignment loop of set_joint_angles: the i-th jointed node gets v[i];
\* the first rejected value ends the loop with the error (the `?`).
RECURSIVE assign_from(_, _, _, _)
assign_from(js, v, i, a) ==
    IF i > Len(js) \/ i > Len(v) THEN [angle |-> a, ret |-> "Ok"]
    ELSE IF ~set_joint_angle_ok(js[i], v[i]) THEN [angle |-> a, ret |-> "OutOfLimit"]
    ELSE assign_from(js, v, i + 1, [a EXCEPT ![js[i]] = v[i]])

\* Mutant: the length check is gone, zip stops at the shorter side.
LinkTree_set_joint_angles_unchecked(v) == assign_from(iter_for_joints, v, 1, angle)

\* LinkTree::set_joint_angles
LinkTree_set_joint_angles(v) ==
    IF Len(v) # dof THEN [angle |-> angle, ret |-> "SizeMisMatch"]
    ELSE assign_from(iter_for_joints, v, 1, angle)

\* Mutant: the pass does not store the transform in the node's cache.
RECURSIVE calc_pass_no_store(_, _, _)
calc_pass_no_store(ns, c, acc) ==
    IF ns = <<>> THEN [cache |-> c, val |-> acc]
    ELSE LET n == Head(ns)
             parent_transform ==
                 IF parent[n] # 0 /\ c[parent[n]] # <<>> THEN c[parent[n]][1]
                 ELSE Identity
             trans == Mul(parent_transform, calc_transform(n))
         IN  calc_pass_no_store(Tail(ns), c, Append(acc, trans))

\* LinkTree::calc_link_transforms: one pass over the flattened order; c is
\* the caches as the pass has left them so far, acc the collected output.
RECURSIVE calc_link_transforms(_, _, _)
calc_link_transforms(ns, c, acc) ==
    IF ns = <<>> THEN [cache |-> c, val |-> acc]
    ELSE LET n == Head(ns)
             parent_transform ==
                 IF parent[n] # 0 /\ c[parent[n]] # <<>> THEN c[parent[n]][1]
                 ELSE Identity
             trans == Mul(parent_transform, calc_transform(n))
         IN  calc_link_transforms(Tail(ns), [c EXCEPT ![n] = <<trans>>],
                                  Append(acc, trans))

\* ------------------------------------------------------- RefKinematicChain
\* Mutant: links.reverse() is gone, the chain runs from end to root.
RefKinematicChain_new_unreversed(nm, end) ==
    [name |-> nm, joint_with_links |-> map_ancestors(end)]

\* RefKinematicChain::new
RefKinematicChain_new(nm, end) ==
    [name |-> nm, joint_with_links |-> Reverse(map_ancestors(end))]

\* the jointed nodes of a chain, in chain order
joints_with_angle(c) == Filter(c.joint_with_links, has_joint)

\* RefKinematicChain::get_joint_angles
Chain_get_joint_angles(c, a) == filter_map_angles(c.joint_with_links, a)

\* Mutant: the chain holds copies of the links, its writes reach no shared node.
Chain_set_joint_angles_on_copy(c, v) ==
    [angle |-> angle,
     ret |-> IF Len(joints_with_angle(c)) # Len(v) THEN "SizeMisMatch"
             ELSE assign_from(joints_with_angle(c), v, 1, angle).ret]

\* RefKinematicChain::set_joint_angles
Chain_set_joint_angles(c, v) ==
    IF Len(joints_with_angle(c)) # Len(v) THEN [angle |-> angle, ret |-> "SizeMisMatch"]
    ELSE assign_from(joints_with_angle(c), v, 1, angle)

\* ------------------------------------------------------------- input sets
\* The vectors handed to set_joint_angles when d nodes are jointed: of
\* length d, every vector with at most one entry out of limits; of every
\* other length up to d + 1, the vectors whose entries are all alike.
AngleVectors(d) ==
    {v \in [1..d -> AngleVals] :
        Cardinality({i \in 1..d : v[i] \notin ValidAngles}) <= 1}
        \cup UNION {{[i \in 1..m |-> x] : x \in AngleVals} : m \in (0..(d + 1)) \ {d}}

\* The trees set_parent_child can build on k nodes with node 1 as the
\* parentless node: every other node hangs under an earlier one.
TreesOn(k) == {p \in [1..k -> 0..k] : p[1] = 0 /\ \A i \in 2..k : p[i] \in 1..(i - 1)}

LinkNames == <<"link1", "link2", "link3", "link4", "link5",
               "link6", "link7", "link8", "link9", "link10">>

IdleExtract ==
    /\ dof_limit = 0
    /\ pc = "idle"
    /\ leaves = <<>>
    /\ leaf = 0
    /\ root = 0
    /\ remove_dof = 0
    /\ name_hash = {}
    /\ visited = <<>>
    /\ out = <<>>

\* ---------------------------------------------- joint angles: Spec
\* A LinkTree on the parentless node of a tree of up to MaxNodes links, any
\* of them with a fixed joint; every angle is 0 and no chain is made yet.
Init ==
    /\ \E k \in 1..MaxNodes : parent \in TreesOn(k)
    /\ name = [n \in Nodes |-> LinkNames[n]]
    /\ has_joint \in [Nodes -> BOOLEAN]
    /\ angle = [n \in Nodes |-> 0]
    /\ transform = [n \in Nodes |-> Identity]
    /\ cache = [n \in Nodes |-> <<>>]
    /\ tree = LinkTree_new(1)
    /\ chain = NoChain
    /\ last = NoCall
    /\ IdleExtract

TreeSetJointAngles ==
    \E v \in AngleVectors(dof) :
        LET r == LinkTree_set_joint_angles(v) IN
        /\ angle' = r.angle
        /\ last' = [op |-> "tree_set", v |-> v, ret |-> r.ret, val |-> <<>>]
        /\ UNCHANGED <<structure, cache, tree, chain, extract>>

ChainNew ==
    \E end \in Nodes :
        /\ chain' = RefKinematicChain_new("chain1", end)
        /\ last' = [op |-> "chain_new", v |-> <<end>>, ret |-> "Ok", val |-> <<>>]
        /\ UNCHANGED <<structure, angle, cache, tree, extract>>

ChainSetJointAngles ==
    /\ chain # NoChain
    /\ \E v \in AngleVectors(Len(joints_with_angle(chain))) :
        LET r == Chain_set_joint_angles(chain, v) IN
        /\ angle' = r.angle
        /\ last' = [op |-> "chain_set", v |-> v, ret |-> r.ret, val |-> <<>>]
        /\ UNCHANGED <<structure, cache, tree, chain, extract>>

Next == TreeSetJointAngles \/ ChainNew \/ ChainSetJointAngles

Spec == Init /\ [][Next]_vars

\* ------------------------------------------------------------------ claims
\* The jointed nodes the last set_joint_angles call went through.
LastJoints(l) == IF l.op = "tree_set" THEN iter_for_joints ELSE joints_with_angle(chain)
IsSet(l) == l.op \in {"tree_set", "chain_set"}

\* First index of v that the per-joint primitive rejects (0: none).
FirstRejected(js, v) ==
    IF \E i \in 1..Len(v) : ~set_joint_angle_ok(js[i], v[i])
    THEN CHOOSE i \in 1..Len(v) :
            /\ ~set_joint_angle_ok(js[i], v[i])
            /\ \A j \in 1..(i - 1) : set_joint_angle_ok(js[j], v[j])
    ELSE 0

\* C1: set_joint_angles, on the tree or on a chain, with a vector whose length
\* differs from the number of jointed nodes returns SizeMisMatch and changes
\* the angle of no node.
C1_SizeMisMatchWritesNothing ==
    [][(IsSet(last') /\ Len(last'.v) # Len(LastJoints(last')))
            => (last'.ret = "SizeMisMatch" /\ angle' = angle)]_vars

C1_Witness ==
    /\ last.op = "tree_set"
    /\ last.ret = "SizeMisMatch"
    /\ Len(last.v) \in 1..(dof - 1)
    /\ last.v[1] = 1
    /\ angle[iter_for_joints[1]] = 0

\* C2: after LinkTree::set_joint_angles(v) with v of length dof() and every
\* entry accepted by its joint, the call returned Ok and get_joint_angles()
\* is v.
C2_RoundTrip ==
    (/\ last.op = "tree_set"
     /\ Len(last.v) = dof
     /\ FirstRejected(iter_for_joints, last.v) = 0)
        => (last.ret = "Ok" /\ LinkTree_get_joint_angles(angle) = last.v)

C2_Witness ==
    /\ last.op = "tree_set"
    /\ last.ret = "Ok"
    /\ dof >= 2
    /\ last.v[1] # last.v[2]
    /\ \E i \in 1..Len(tree.expanded_robot_link_vec) :
          ~has_joint[tree.expanded_robot_link_vec[i]]

\* C8: the tree and a chain alias the same nodes.  For every jointed node
\* that is in both, the two views read the same angle, and that angle is the
\* one the last successful set_joint_angles wrote, through whichever view.
C8_SharedNodes ==
    \A n \in Range(iter_for_joints) \cap Range(joints_with_angle(chain)) :
        LET ti == IndexOf(iter_for_joints, n)
            ci == IndexOf(joints_with_angle(chain), n)
            t == LinkTree_get_joint_angles(angle)
            c == Chain_get_joint_angles(chain, angle)
        IN  /\ t[ti] = c[ci]
            /\ (last.op = "tree_set" /\ last.ret = "Ok") => c[ci] = last.v[ti]
            /\ (last.op = "chain_set" /\ last.ret = "Ok") => t[ti] = last.v[ci]

C8_Witness ==
    /\ last.op = "chain_set"
    /\ last.ret = "Ok"
    /\ \E n \in Range(iter_for_joints) \cap Range(joints_with_angle(chain)) :
          /\ IndexOf(iter_for_joints, n) # IndexOf(joints_with_angle(chain), n)
          /\ angle[n] = 1
    /\ \E n \in Range(iter_for_joints) \ Range(joints_with_angle(chain)) : angle[n] = 1

\* C9: set_joint_angles with a vector of the right length whose first
\* rejected entry is at index i returns the per-joint error; the jointed
\* nodes before i hold the new values and those from i on keep their angles.
C9_AbortAtFirstFailure ==
    [][IsSet(last') =>
        \A js \in {LastJoints(last')} :
            Len(last'.v) = Len(js) =>
                \A i \in {FirstRejected(js, last'.v)} \ {0} :
                    /\ last'.ret = "OutOfLimit"
                    /\ \A j \in 1..(i - 1) : angle'[js[j]] = last'.v[j]
                    /\ \A j \in i..Len(js) : angle'[js[j]] = angle[js[j]]]_vars

C9_Witness ==
    /\ last.op = "chain_set"
    /\ last.ret = "OutOfLimit"
    /\ Len(last.v) = 3
    /\ FirstRejected(joints_with_angle(chain), last.v) = 2
    /\ last.v[1] = 1 /\ last.v[3] = 1
    /\ angle[joints_with_angle(chain)[1]] = 1
    /\ angle[joints_with_angle(chain)[3]] = 0

\* ------------------------------------- RefKinematicChain::new: SpecNew
\* The trees of up to MaxPathNodes nodes, every joint fixed or not, holding
\* any accepted angle (as after Link::set_joint_angle on each node).
InitNew ==
    /\ \E k \in 1..MaxPathNodes : parent \in TreesOn(k)
    /\ name = [n \in Nodes |-> LinkNames[n]]
    /\ has_joint \in [Nodes -> BOOLEAN]
    /\ angle \in [Nodes -> ValidAngles]
    /\ transform = [n \in Nodes |-> Identity]
    /\ cache = [n \in Nodes |-> <<>>]
    /\ tree = LinkTree_new(1)
    /\ chain = NoChain
    /\ last = NoCall
    /\ IdleExtract

SpecNew == InitNew /\ [][ChainNew]_vars

\* s is the path from the node without parent down to end, inclusive.
IsRootPath(s, end) ==
    /\ Len(s) >= 1
    /\ s[Len(s)] = end
    /\ parent[s[1]] = 0
    /\ \A i \in 2..Len(s) : parent[s[i]] = s[i - 1]

\* C3: RefKinematicChain::new(name, end) stores the path from the parentless
\* ancestor of end down to end, root first, and get_joint_angles() on the
\* chain has one entry per jointed node of that path, in that order.
C3_ChainIsRootPath ==
    last.op = "chain_new" =>
        LET s == chain.joint_with_links
            g == Chain_get_joint_angles(chain, angle)
            jointed == {i \in 1..Len(s) : has_joint[s[i]]}
        IN  /\ IsRootPath(s, last.v[1])
            /\ Len(g) = Cardinality(jointed)
            /\ \A i \in jointed :
                  g[Cardinality({j \in jointed : j <= i})] = angle[s[i]]

C3_Witness ==
    /\ last.op = "chain_new"
    /\ Len(chain.joint_with_links) = 4
    /\ Len(Chain_get_joint_angles(chain, angle)) = 4
    /\ Chain_get_joint_angles(chain, angle) = <<0, 1, 1, 0>>

\* ------------------------------------------- link transforms: SpecFK
\* The trees of up to MaxNodes nodes; every link has either offset, and its
\* joint is fixed or holds an accepted angle.
InitFK ==
    /\ \E k \in 1..MaxNodes : parent \in TreesOn(k)
    /\ name = [n \in Nodes |-> LinkNames[n]]
    /\ has_joint \in [Nodes -> BOOLEAN]
    /\ angle \in {a \in [Nodes -> ValidAngles] : \A n \in Nodes : ~has_joint[n] => a[n] = 0}
    /\ transform \in [Nodes -> Offsets]
    /\ cache = [n \in Nodes |-> <<>>]
    /\ \E r \in Nodes : tree = LinkTree_new(r)
    /\ chain = NoChain
    /\ last = NoCall
    /\ IdleExtract

\* LinkTree::set_root_transform
SetRootTransform ==
    \E t \in Offsets :
        /\ transform' = [transform EXCEPT ![tree.root_link] = t]
        /\ last' = [op |-> "set_root_transform", v |-> <<>>, ret |-> "", val |-> <<>>]
        /\ UNCHANGED <<parent, name, has_joint, angle, cache, tree, chain, extract>>

\* LinkTree::calc_link_transforms.  last.ret records whether the call found
\* a cache that held another transform than the one it left there.
CalcLinkTransforms ==
    LET r == calc_link_transforms(tree.expanded_robot_link_vec, cache, <<>>) IN
    /\ cache' = r.cache
    /\ last' = [op |-> "calc_link_transforms", v |-> <<>>,
                ret |-> IF \E n \in Nodes : cache[n] # <<>> /\ cache[n] # r.cache[n]
                        THEN "stale" ELSE "fresh",
                val |-> r.val]
    /\ UNCHANGED <<structure, angle, tree, chain, extract>>

NextFK == SetRootTransform \/ CalcLinkTransforms

SpecFK == InitFK /\ [][NextFK]_vars

\* C7: on a tree built on a parentless root, calc_link_transforms returns one
\* transform per node in flattened order; the root's is its local transform,
\* any other node's is its parent's entry of the same call times its local
\* transform, whatever the caches held; every cache holds the node's entry.
\* The parent's entry precedes the node's.
C7_TransformsCompose ==
    (last.op = "calc_link_transforms" /\ parent[tree.root_link] = 0) =>
        LET ns == tree.expanded_robot_link_vec IN
        /\ Len(last.val) = Len(ns)
        /\ \A i \in 1..Len(ns) :
              LET n == ns[i]
                  pi == IndexOf(ns, parent[n])
              IN  /\ cache[n] = <<last.val[i]>>
                  /\ IF parent[n] = 0
                     THEN last.val[i] = calc_transform(n)
                     ELSE /\ pi \in 1..(i - 1)
                          /\ last.val[i] = Mul(last.val[pi], calc_transform(n))

C7_Witness ==
    /\ last.op = "calc_link_transforms"
    /\ last.ret = "stale"
    /\ parent[tree.root_link] = 0
    /\ Len(tree.expanded_robot_link_vec) = 3
    /\ \E i \in 2..3 :
          LET n == tree.expanded_robot_link_vec[i] IN
          /\ parent[n] # tree.root_link
          /\ calc_transform(n) # Identity
          /\ calc_transform(parent[n]) # Identity
          /\ last.val[i] # calc_transform(n)

\* -------------------- create_kinematic_chains_with_dof_limit: SpecExtract
\* Trees with at most two leaves: nodes 1..m are a path from the root, and
\* the nodes after m are a path hanging under node j of it.
TwoLeafTrees(k) ==
    {[i \in 1..k |-> IF i = 1 THEN 0 ELSE IF i = m + 1 THEN j ELSE i - 1] :
        m \in 1..k, j \in 1..k} \cap TreesOn(k)

Depth(n) == Len(map_ancestors(n))

\* Link names: all different, all the same, or shared by the links at the
\* same depth (limbs built from one name template).
NameSchemes ==
    {[n \in Nodes |-> LinkNames[n]],
     [n \in Nodes |-> LinkNames[1]],
     [n \in Nodes |-> LinkNames[Depth(n)]]}

InitExtract ==
    /\ \E k \in 1..MaxExtNodes : parent \in TwoLeafTrees(k)
    /\ name \in NameSchemes
    /\ has_joint \in {h \in [Nodes -> BOOLEAN] :
                        Cardinality({n \in Nodes : ~h[n]}) <= MaxFixed}
    /\ angle = [n \in Nodes |-> 0]
    /\ transform = [n \in Nodes |-> Identity]
    /\ cache = [n \in Nodes |-> <<>>]
    /\ tree = LinkTree_new(1)
    /\ chain = NoChain
    /\ last = NoCall
    /\ IdleExtract

is_leaf == [n \in Nodes |-> Children(n) = <<>>]

\* dof of the closure: the jointed nodes among the leaf and its ancestors.
ancestor_dof(n) == Len(Filter(map_ancestors(n), has_joint))

\* Mutant: one more jointed ancestor is removed than the limit asks for.
initial_remove_dof_plus_one(d, limit) == IF d > limit THEN d - limit + 1 ELSE 0

\* `if dof > dof_limit { let mut remove_dof = dof - dof_limit; ...`
initial_remove_dof(d, limit) == IF d > limit THEN d - limit ELSE 0

\* Mutant: the chain is kept from 5 joints on.
keep_chain_from_five(kc) == Len(Chain_get_joint_angles(kc, angle)) >= 5

\* `if kc.get_joint_angles().len() >= 6`
keep_chain(kc) == Len(Chain_get_joint_angles(kc, angle)) >= 6

\* The call: create_kinematic_chains passes usize::max_value().
Call ==
    /\ pc = "idle"
    /\ \E limit \in (0..Cardinality(Nodes)) \cup {usize_max} :
          dof_limit' = limit
    /\ name_hash' = {}
    /\ leaves' = Filter(tree.expanded_robot_link_vec, is_leaf)
    /\ pc' = "next"
    /\ UNCHANGED <<structure, angle, cache, tree, chain, last,
                   leaf, root, remove_dof, visited, out>>

\* The iterator yields the next leaf and the closure starts on it.
NextLeaf ==
    /\ pc = "next"
    /\ leaves # <<>>
    /\ leaf' = Head(leaves)
    /\ leaves' = Tail(leaves)
    /\ root' = Head(leaves)
    /\ remove_dof' = initial_remove_dof(ancestor_dof(Head(leaves)), dof_limit)
    /\ pc' = "walk"
    /\ UNCHANGED <<structure, angle, cache, tree, chain, last,
                   dof_limit, name_hash, visited, out>>

\* One turn of `while remove_dof > 0` on a node that has a parent.
WalkUp ==
    /\ pc = "walk"
    /\ remove_dof > 0
    /\ parent[root] # 0
    /\ root' = parent[root]
    /\ remove_dof' = IF has_joint[parent[root]] THEN remove_dof - 1 ELSE remove_dof
    /\ UNCHANGED <<structure, angle, cache, tree, chain, last,
                   dof_limit, pc, leaves, leaf, name_hash, visited, out>>

\* `assert!(parent_opt.is_some())` fails.
AssertFails ==
    /\ pc = "walk"
    /\ remove_dof > 0
    /\ parent[root] = 0
    /\ pc' = "panic"
    /\ UNCHANGED <<structure, angle, cache, tree, chain, last,
                   dof_limit, leaves, leaf, root, remove_dof, name_hash, visited, out>>

\* After the loop: the name check, the chain, the filter on its joints.
Collect ==
    /\ pc = "walk"
    /\ remove_dof = 0
    /\ IF name[root] \notin name_hash
       THEN LET kc == RefKinematicChain_new(name[root], root) IN
            /\ name_hash' = name_hash \cup {name[root]}
            /\ visited' = Append(visited,
                    [leaf |-> leaf, root |-> root, kc |-> kc,
                     verdict |-> IF keep_chain(kc) THEN "emitted" ELSE "discarded"])
            /\ out' = IF keep_chain(kc) THEN Append(out, kc) ELSE out
       ELSE /\ visited' = Append(visited,
                    [leaf |-> leaf, root |-> root, kc |-> NoChain, verdict |-> "skipped"])
            /\ UNCHANGED <<name_hash, out>>
    /\ pc' = "next"
    /\ UNCHANGED <<structure, angle, cache, tree, chain, last,
                   dof_limit, leaves, leaf, root, remove_dof>>

\* The iterator is exhausted: collect() returns.
Return ==
    /\ pc = "next"
    /\ leaves = <<>>
    /\ pc' = "done"
    /\ last' = [op |-> "create_kinematic_chains", v |-> <<>>, ret |-> "Ok", val |-> <<>>]
    /\ UNCHANGED <<structure, angle, cache, tree, chain,
                   dof_limit, leaves, leaf, root, remove_dof, name_hash, visited, out>>

NextExtract == Call \/ NextLeaf \/ WalkUp \/ AssertFails \/ Collect \/ Return

SpecExtract == InitExtract /\ [][NextExtract]_vars

\* C4: every chain the extraction returns has at most dof_limit jointed
\* nodes, also when the leaf it was derived from has a fixed joint.
C4_ChainsWithinLimit ==
    \A i \in 1..Len(out) : Len(Chain_get_joint_angles(out[i], angle)) <= dof_limit

\* A single path of 8 links, every joint movable, extracted with limit 5.
StraightEight ==
    /\ Cardinality(Nodes) = 8
    /\ \A n \in Nodes : has_joint[n] /\ parent[n] = n - 1
    /\ dof_limit = 5
    /\ pc = "done"

\* C5 as stated: on a straight path of 8 jointed links with dof_limit 5 the
\* call returns a chain whose root is the 4th jointed ancestor of the leaf
\* and which holds exactly the 5 jointed links from that root to the leaf.
C5_AsStated ==
    StraightEight =>
        /\ Len(out) = 1
        /\ out[1].joint_with_links = SubSeq(Reverse(map_ancestors(8)), 4, 8)
        /\ Len(Chain_get_joint_angles(out[1], angle)) = 5

\* C5 amended: on that tree the computed root is the 3rd ancestor of the
\* leaf; the chain constructed runs from the tree root down to it and holds
\* exactly 5 jointed links; having fewer than 6 it is discarded, and the
\* call returns no chain.
C5_TruncatedChainDiscarded ==
    StraightEight =>
        /\ out = <<>>
        /\ Len(visited) = 1
        /\ visited[1].leaf = 8
        /\ visited[1].root = map_ancestors(8)[4]
        /\ visited[1].kc.joint_with_links = SubSeq(Reverse(map_ancestors(8)), 1, 5)
        /\ Len(Chain_get_joint_angles(visited[1].kc, angle)) = 5
        /\ visited[1].verdict = "discarded"

C5_Witness == StraightEight /\ Len(visited) = 1

\* C6: a leaf is skipped by the name check exactly when a chain whose root
\* has the same name was emitted for an earlier leaf; so a name is emitted
\* at most once, and a discarded candidate blocks no later leaf.
C6_SkippedIffEmittedBefore ==
    /\ \A i \in 1..Len(visited) :
          (visited[i].verdict = "skipped")
              <=> \E j \in 1..(i - 1) :
                     /\ visited[j].verdict = "emitted"
                     /\ name[visited[j].root] = name[visited[i].root]
    /\ \A i, j \in 1..Len(out) : out[i].name = out[j].name => i = j

\* The truncation loop reads no link name: its claim is checked on the same
\* trees with every link named differently.
InitTruncate == InitExtract /\ name = [n \in Nodes |-> LinkNames[n]]

SpecTruncate == InitTruncate /\ [][NextExtract]_vars

\* What is left of the call, in steps at most: the leaves not yet yielded,
\* each worth a walk to the top, and the walk of the leaf at hand.
Rank ==
    LET perLeaf == Cardinality(Nodes) + 2 IN
    CASE pc = "idle" -> Len(Filter(tree.expanded_robot_link_vec, is_leaf)) * perLeaf + 2
      [] pc = "next" -> Len(leaves) * perLeaf + 1
      [] pc = "walk" -> Len(leaves) * perLeaf + Depth(root) + 1
      [] OTHER -> 0

\* C10: with dof_limit >= 1 the assertion of the truncation loop never
\* fails, and the call returns: until it has returned a step is enabled,
\* and every step brings the call nearer to its end.
C10_TruncationTerminates ==
    /\ [](dof_limit >= 1 => pc # "panic")
    /\ [](pc \in {"done", "panic"} \/ ENABLED NextExtract)
    /\ [][Rank' < Rank]_vars

C10_Witness ==
    /\ pc = "done"
    /\ dof_limit >= 1
    /\ Len(visited) = 2
    /\ \A i \in 1..2 : /\ ancestor_dof(visited[i].leaf) > dof_limit
                       /\ visited[i].root # visited[i].leaf
    /\ \E n \in Nodes : ~has_joint[n]

====
